---- MODULE Spec2Model ----
(***************************************************************************)
(* mem_array_sep<T, NumEntries, NumBanks, NumByteEnables>                  *)
(* (cmod/include/mem_array.h): a banked memory whose words are stored as   *)
(* NumByteEnables slices of sc_lv<SliceWidth>, with masked writes.         *)
(*                                                                         *)
(* The element type T is instantiated as an unsigned integer of WordWidth  *)
(* bits.  sc_lv bits are four-valued logic; the values that occur here are *)
(* "0", "1" and "X" (the value of a default-constructed sc_lv).            *)
(***************************************************************************)
EXTENDS Integers, FiniteSets, Sequences, TLC

VARIABLES bank, last, prev, nops, cfg, probe, word, hist

(* The file-driven AXI master (MasterFromFile): the rows of the CSV file,  *)
(* the queues and payload members of the module, the position of the run() *)
(* thread with the clock edges it still waits for, the five channels and   *)
(* the slave at their far end, and the record of what was pushed and       *)
(* popped.                                                                 *)
VARIABLES script, ctor, delay_q, isWrite_q, raddr_q, waddr_q, wdata_q,
          rresp_q, addr_pld, wr_data_pld, data_pld, done, pc, wcount,
          if_wr_aw, if_wr_w, if_wr_b, if_rd_ar, if_rd_r, slave, events, ub

memVars == <<bank, last, prev, nops, cfg, probe, word, hist>>

queueVars == <<delay_q, isWrite_q, raddr_q, waddr_q, wdata_q, rresp_q>>

masterVars ==
  <<script, ctor, queueVars, addr_pld, wr_data_pld, data_pld, done, pc,
    wcount, if_wr_aw, if_wr_w, if_wr_b, if_rd_ar, if_rd_r, slave, events, ub>>

vars == <<memVars, masterVars>>

(***************************************************************************)
(* Template parameters and derived constants of the instantiation.         *)
(***************************************************************************)
NumEntries == 4
NumBanks == 2
NumByteEnables == 2
WordWidth == 2

NumEntriesPerBank == NumEntries \div NumBanks
SliceWidth == WordWidth \div NumByteEnables

(* Bounds of the exploration. *)
MaxOps == 2
MaxGeomEntries == 4
MaxGeomBanks == 4
MaxGeomByteEnables == 2
MaxHist == 2

Pow2(n) == 2 ^ n

(***************************************************************************)
(* Types.                                                                  *)
(***************************************************************************)
Logic == {"0", "1", "X"}
Slice_t == [0 .. SliceWidth - 1 -> Logic]
Data_t == [0 .. WordWidth - 1 -> Logic]
TValues == 0 .. Pow2(WordWidth) - 1
WriteMask == 0 .. Pow2(NumByteEnables) - 1
FullMask == Pow2(NumByteEnables) - 1
ValidIdx == 0 .. NumEntriesPerBank - 1
ValidBank == 0 .. NumBanks - 1
SliceRange == 0 .. NumByteEnables - 1
BankPositions == 0 .. NumEntriesPerBank * NumByteEnables - 1

(* write_mask[i] *)
MaskBit(m, i) == (m \div Pow2(i)) % 2

(***************************************************************************)
(* Marshalling between T and its bit vector (TypeToBits.h).                *)
(***************************************************************************)
TypeToBits(v) ==
  [k \in 0 .. WordWidth - 1 |-> IF (v \div Pow2(k)) % 2 = 1 THEN "1" ELSE "0"]

(* The values a bit vector may convert to: a bit that is "X" has no binary *)
(* value, so either bit value is a possible outcome of the conversion.     *)
BitsToType(w) ==
  {v \in TValues :
     \A k \in 0 .. WordWidth - 1 : w[k] = "X" \/ w[k] = TypeToBits(v)[k]}

(***************************************************************************)
(* sc_lv values and part selects.                                          *)
(***************************************************************************)
(* Slice_t value;      -- a default-constructed sc_lv is all X *)
SliceDefault == [k \in 0 .. SliceWidth - 1 |-> "X"]
(* Slice_t value = 0; *)
SliceZero == [k \in 0 .. SliceWidth - 1 |-> "0"]
(* Data_t read_data = 0; *)
DataZero == [k \in 0 .. WordWidth - 1 |-> "0"]

(* w.range(hi, lo) as an rvalue *)
Range(w, hi, lo) == [k \in 0 .. hi - lo |-> w[lo + k]]

(* w.range(hi, lo) = s *)
AssignRange(w, hi, lo, s) ==
  [k \in DOMAIN w |-> IF k >= lo /\ k <= hi THEN s[k - lo] ELSE w[k]]

(* idx * NumByteEnables + i, with the overlapping variant idx + i *)
SliceIndex_Overlap(idx, i, nbe) == idx + i

SliceIndex(idx, i, nbe) == idx * nbe + i

(***************************************************************************)
(* Constructor and clear().                                                *)
(***************************************************************************)
CtorBank_Zero == [b \in ValidBank |-> [j \in BankPositions |-> SliceZero]]

CtorBank == [b \in ValidBank |-> [j \in BankPositions |-> SliceDefault]]

ClearBank_Default(bk) ==
  [b \in ValidBank |-> [j \in BankPositions |-> SliceDefault]]

ClearBank(bk) == [b \in ValidBank |-> [j \in BankPositions |-> SliceZero]]

(***************************************************************************)
(* read(): the loop over i, then the word assembled.                       *)
(***************************************************************************)
RECURSIVE ReadLoop(_, _, _, _, _)
ReadLoop(bk, idx, bank_sel, i, read_data) ==
  IF i >= NumByteEnables THEN read_data
  ELSE ReadLoop(bk, idx, bank_sel, i + 1,
         AssignRange(read_data, (i + 1) * SliceWidth - 1, i * SliceWidth,
                     bk[bank_sel][SliceIndex(idx, i, NumByteEnables)]))

RECURSIVE ReadLoop_Reversed(_, _, _, _, _)
ReadLoop_Reversed(bk, idx, bank_sel, i, read_data) ==
  IF i >= NumByteEnables THEN read_data
  ELSE ReadLoop_Reversed(bk, idx, bank_sel, i + 1,
         AssignRange(read_data, (i + 1) * SliceWidth - 1, i * SliceWidth,
           bk[bank_sel][SliceIndex(idx, NumByteEnables - 1 - i, NumByteEnables)]))

ReadData_Reversed(bk, idx, bank_sel) ==
  ReadLoop_Reversed(bk, idx, bank_sel, 0, DataZero)

ReadData(bk, idx, bank_sel) == ReadLoop(bk, idx, bank_sel, 0, DataZero)

(***************************************************************************)
(* write(): tmp[i] are the slices of the serialized value; the second loop *)
(* commits the slices the mask selects, when wce is set.                   *)
(***************************************************************************)
Tmp_Swapped(val, i) ==
  Range(TypeToBits(val), (NumByteEnables - i) * SliceWidth - 1,
        (NumByteEnables - 1 - i) * SliceWidth)

Tmp(val, i) == Range(TypeToBits(val), (i + 1) * SliceWidth - 1, i * SliceWidth)

RECURSIVE WriteLoop(_, _, _, _, _, _)
WriteLoop(bk, idx, bank_sel, val, write_mask, i) ==
  IF i >= NumByteEnables THEN bk
  ELSE WriteLoop(
         IF MaskBit(write_mask, i) = 1
           THEN [bk EXCEPT ![bank_sel][SliceIndex(idx, i, NumByteEnables)] =
                             Tmp(val, i)]
           ELSE bk,
         idx, bank_sel, val, write_mask, i + 1)

(* Variants of write() with one plausible slip each. *)
WriteBank_IgnoreWce(bk, idx, bank_sel, val, write_mask, wce) ==
  WriteLoop(bk, idx, bank_sel, val, write_mask, 0)

WriteBank_InvertedMask(bk, idx, bank_sel, val, write_mask, wce) ==
  IF wce THEN WriteLoop(bk, idx, bank_sel, val, FullMask - write_mask, 0)
  ELSE bk

WriteBank_ZeroMasked(bk, idx, bank_sel, val, write_mask, wce) ==
  IF wce
    THEN [bk EXCEPT ![bank_sel] =
            [j \in BankPositions |->
               IF \E i \in SliceRange : j = SliceIndex(idx, i, NumByteEnables)
                 THEN LET i == CHOOSE i \in SliceRange :
                                 j = SliceIndex(idx, i, NumByteEnables)
                      IN IF MaskBit(write_mask, i) = 1 THEN Tmp(val, i)
                         ELSE SliceZero
                 ELSE bk[bank_sel][j]]]
    ELSE bk

WriteBank_AllBanks(bk, idx, bank_sel, val, write_mask, wce) ==
  IF wce
    THEN [b \in ValidBank |->
            WriteLoop(bk, idx, b, val, write_mask, 0)[b]]
    ELSE bk

WriteBank_ZeroMaskAsFull(bk, idx, bank_sel, val, write_mask, wce) ==
  IF wce
    THEN WriteLoop(bk, idx, bank_sel, val,
                   IF write_mask = 0 THEN FullMask ELSE write_mask, 0)
    ELSE bk

WriteBank(bk, idx, bank_sel, val, write_mask, wce) ==
  IF wce THEN WriteLoop(bk, idx, bank_sel, val, write_mask, 0) ELSE bk

(***************************************************************************)
(* The same class instantiated with NumByteEnables = 1: every entry is one *)
(* slice of WordWidth bits at position idx * 1 + 0, the loops run once     *)
(* (i = 0) and the write mask has a single bit.                            *)
(***************************************************************************)
WordPositions == 0 .. NumEntriesPerBank * 1 - 1

WordCtorBank ==
  [b \in ValidBank |-> [j \in WordPositions |-> [k \in 0 .. WordWidth - 1 |-> "X"]]]

WordClearBank(w) == [b \in ValidBank |-> [j \in WordPositions |-> DataZero]]

WordReadData(w, idx, bank_sel) ==
  AssignRange(DataZero, WordWidth - 1, 0, w[bank_sel][SliceIndex(idx, 0, 1)])

WordWriteBank(w, idx, bank_sel, val, write_mask, wce) ==
  IF wce /\ MaskBit(write_mask, 0) = 1
    THEN [w EXCEPT ![bank_sel][SliceIndex(idx, 0, 1)] =
                     Range(TypeToBits(val), WordWidth - 1, 0)]
    ELSE w

(***************************************************************************)
(* State: the storage, and the last two calls made on the object.          *)
(***************************************************************************)
OpRec(op, idx, bank_sel, val, mask, wce, rdata) ==
  [op |-> op, idx |-> idx, bank_sel |-> bank_sel, val |-> val,
   mask |-> mask, wce |-> wce, rdata |-> rdata]

NoCall == OpRec("none", 0, 0, 0, 0, FALSE, 0)
CtorCall == OpRec("ctor", 0, 0, 0, 0, FALSE, 0)

FixedCfg ==
  [epb |-> NumEntriesPerBank, banks |-> NumBanks, nbe |-> NumByteEnables]
NoProbe == [idx |-> 0, bank_sel |-> 0, i |-> 0, pos |-> 0, made |-> FALSE]

(* The master absent: no file rows, nothing queued, run() not started. *)
MasterIdle ==
  /\ script = << >>
  /\ ctor = "ok"
  /\ delay_q = << >> /\ isWrite_q = << >> /\ raddr_q = << >>
  /\ waddr_q = << >> /\ wdata_q = << >> /\ rresp_q = << >>
  /\ addr_pld = [addr |-> 0, len |-> 0]
  /\ wr_data_pld = [data |-> 0, wstrb |-> 0, last |-> 0]
  /\ data_pld = [data |-> 0]
  /\ done = 0
  /\ pc = "idle"
  /\ wcount = 0
  /\ if_wr_aw = << >> /\ if_wr_w = << >> /\ if_wr_b = << >> /\ if_rd_ar = << >> /\ if_rd_r = << >>
  /\ slave = [aw |-> FALSE, w |-> FALSE, ar |-> FALSE]
  /\ events = << >>
  /\ ub = FALSE

Init ==
  /\ bank = CtorBank
  /\ last = CtorCall
  /\ prev = NoCall
  /\ nops = 0
  /\ cfg = FixedCfg
  /\ probe = NoProbe
  /\ word = WordCtorBank
  /\ hist = << >>
  /\ MasterIdle

Clear ==
  /\ nops < MaxOps
  /\ bank' = ClearBank(bank)
  /\ prev' = last
  /\ last' = OpRec("clear", 0, 0, 0, 0, FALSE, 0)
  /\ nops' = nops + 1
  /\ UNCHANGED <<cfg, probe, word, hist, masterVars>>

Read(idx, bank_sel) ==
  /\ nops < MaxOps
  /\ \E r \in BitsToType(ReadData(bank, idx, bank_sel)) :
       last' = OpRec("read", idx, bank_sel, 0, 0, FALSE, r)
  /\ prev' = last
  /\ nops' = nops + 1
  /\ UNCHANGED <<bank, cfg, probe, word, hist, masterVars>>

Write(idx, bank_sel, val, write_mask, wce) ==
  /\ nops < MaxOps
  /\ bank' = WriteBank(bank, idx, bank_sel, val, write_mask, wce)
  /\ prev' = last
  /\ last' = OpRec("write", idx, bank_sel, val, write_mask, wce, 0)
  /\ nops' = nops + 1
  /\ UNCHANGED <<cfg, probe, word, hist, masterVars>>

Next ==
  \/ Clear
  \/ \E idx \in ValidIdx, bank_sel \in ValidBank : Read(idx, bank_sel)
  \/ \E idx \in ValidIdx, bank_sel \in ValidBank, val \in TValues,
        write_mask \in WriteMask, wce \in BOOLEAN :
       Write(idx, bank_sel, val, write_mask, wce)

Spec == Init /\ [][Next]_vars

(***************************************************************************)
(* Index types.  index_width<N> is the number of bits of an index into N   *)
(* items, ceil(log2(N)); LocalIndex and BankIndex are unsigned integers of *)
(* that width.                                                             *)
(***************************************************************************)
RECURSIVE Log2Ceil(_)
Log2Ceil(n) == IF n <= 1 THEN 0 ELSE 1 + Log2Ceil((n + 1) \div 2)

IndexWidth(n) == Log2Ceil(n)

LocalIndexValues_Inclusive(epb) == 0 .. Pow2(IndexWidth(epb))

LocalIndexValues(epb) == 0 .. Pow2(IndexWidth(epb)) - 1

BankIndexValues(nb) == 0 .. Pow2(IndexWidth(nb)) - 1

IsPow2(n) == \E k \in 0 .. n : Pow2(k) = n

(***************************************************************************)
(* The addressing of read() and write() over the configurations: any       *)
(* (idx, bank_sel) the index types admit, and the slice position           *)
(* bank[bank_sel][idx * NumByteEnables + i] it selects.                    *)
(***************************************************************************)
GeomConfigs ==
  [epb : 1 .. MaxGeomEntries, banks : 1 .. MaxGeomBanks,
   nbe : 1 .. MaxGeomByteEnables]

GeomInit ==
  /\ bank = CtorBank
  /\ last = CtorCall
  /\ prev = NoCall
  /\ nops = 0
  /\ cfg \in GeomConfigs
  /\ probe = NoProbe
  /\ word = WordCtorBank
  /\ hist = << >>
  /\ MasterIdle

Address(idx, bank_sel, i) ==
  /\ probe' = [idx |-> idx, bank_sel |-> bank_sel, i |-> i,
               pos |-> SliceIndex(idx, i, cfg.nbe), made |-> TRUE]
  /\ UNCHANGED <<bank, last, prev, nops, cfg, word, hist, masterVars>>

GeomNext ==
  \E idx \in LocalIndexValues(cfg.epb), bank_sel \in BankIndexValues(cfg.banks),
     i \in 0 .. cfg.nbe - 1 :
    Address(idx, bank_sel, i)

GeomSpec == GeomInit /\ [][GeomNext]_vars

(***************************************************************************)
(* The sliced memory and the NumByteEnables = 1 memory driven by the same  *)
(* calls: clear(), read() and enabled writes whose mask is all ones or all *)
(* zeros (a single mask bit in the one-slice memory).                      *)
(***************************************************************************)
RefClear ==
  /\ bank' = ClearBank(bank)
  /\ word' = WordClearBank(word)
  /\ last' = OpRec("clear", 0, 0, 0, 0, FALSE, 0)
  /\ UNCHANGED <<prev, nops, cfg, probe, hist, masterVars>>

RefRead(idx, bank_sel) ==
  /\ \E r \in BitsToType(ReadData(bank, idx, bank_sel)) :
       last' = OpRec("read", idx, bank_sel, 0, 0, FALSE, r)
  /\ UNCHANGED <<bank, word, prev, nops, cfg, probe, hist, masterVars>>

RefWrite(idx, bank_sel, val, bit) ==
  /\ bank' = WriteBank(bank, idx, bank_sel, val,
                       IF bit = 1 THEN FullMask ELSE 0, TRUE)
  /\ word' = WordWriteBank(word, idx, bank_sel, val, bit, TRUE)
  /\ last' = OpRec("write", idx, bank_sel, val,
                   IF bit = 1 THEN FullMask ELSE 0, TRUE, 0)
  /\ UNCHANGED <<prev, nops, cfg, probe, hist, masterVars>>

RefNext ==
  \/ RefClear
  \/ \E idx \in ValidIdx, bank_sel \in ValidBank : RefRead(idx, bank_sel)
  \/ \E idx \in ValidIdx, bank_sel \in ValidBank, val \in TValues,
        bit \in {0, 1} :
       RefWrite(idx, bank_sel, val, bit)

RefSpec == Init /\ [][RefNext]_vars

(***************************************************************************)
(* The memory with the whole sequence of calls made on it recorded.  Of a  *)
(* write whose wce is false the history keeps the entry addressed and that *)
(* it was gated off; its value and mask take part in nothing.              *)
(***************************************************************************)
HistClear ==
  /\ Len(hist) < MaxHist
  /\ bank' = ClearBank(bank)
  /\ hist' = Append(hist, OpRec("clear", 0, 0, 0, 0, FALSE, 0))
  /\ UNCHANGED <<last, prev, nops, cfg, probe, word, masterVars>>

HistRead(idx, bank_sel) ==
  /\ Len(hist) < MaxHist
  /\ hist' = Append(hist, OpRec("read", idx, bank_sel, 0, 0, FALSE, 0))
  /\ UNCHANGED <<bank, last, prev, nops, cfg, probe, word, masterVars>>

HistWrite(idx, bank_sel, val, write_mask, wce) ==
  /\ Len(hist) < MaxHist
  /\ bank' = WriteBank(bank, idx, bank_sel, val, write_mask, wce)
  /\ hist' = Append(hist,
                    IF wce
                      THEN OpRec("write", idx, bank_sel, val, write_mask, TRUE, 0)
                      ELSE OpRec("write", idx, bank_sel, 0, 0, FALSE, 0))
  /\ UNCHANGED <<last, prev, nops, cfg, probe, word, masterVars>>

HistNext ==
  \/ HistClear
  \/ \E idx \in ValidIdx, bank_sel \in ValidBank : HistRead(idx, bank_sel)
  \/ \E idx \in ValidIdx, bank_sel \in ValidBank, val \in TValues,
        write_mask \in WriteMask, wce \in BOOLEAN :
       HistWrite(idx, bank_sel, val, write_mask, wce)

HistSpec == Init /\ [][HistNext]_vars

(***************************************************************************)
(* MasterFromFile.  A row of the CSV file is its number of fields and the  *)
(* four fields: delay, request type, address and data, the numbers already *)
(* converted from their text.                                              *)
(***************************************************************************)
MaxRows == 2
MaxDelay == 1
DataWidth == 64
InitialWait == 20

AddrValues == {0, 1}
DataValues == {0, 1}
Delays == 0 .. MaxDelay

Row(n, delay, kind, addr, data) ==
  [n |-> n, delay |-> delay, kind |-> kind, addr |-> addr, data |-> data]

(* Rows in the documented format, a row with another request type and a    *)
(* row with a field missing.                                               *)
GoodRows ==
  {Row(4, d, k, a, v) : d \in Delays, k \in {"R", "W"}, a \in AddrValues,
                        v \in DataValues}
OtherTypeRows == {Row(4, d, "X", 0, 0) : d \in Delays}
ShortRows == {Row(3, 0, "W", 0, 0)}
Rows == GoodRows \cup OtherTypeRows \cup ShortRows

RECURSIVE SeqsUpTo(_, _)
SeqsUpTo(S, n) ==
  IF n = 0 THEN {<< >>}
  ELSE LET shorter == SeqsUpTo(S, n - 1)
       IN shorter \cup {Append(q, x) : q \in {t \in shorter : Len(t) = n - 1},
                                       x \in S}

Scripts == SeqsUpTo(Rows, MaxRows)

(* bytesPerBeat, and 0xFF assigned to the wstrb field of that many bits *)
bytesPerBeat == DataWidth \div 8
FullStrobe == Pow2(bytesPerBeat) - 1
Wstrb0xFF == 255 % Pow2(bytesPerBeat)

AddrPayload(addr) == [addr |-> addr, len |-> 0]
WritePayload(data) == [data |-> data, wstrb |-> Wstrb0xFF, last |-> 1]

AddrPayloads == {AddrPayload(a) : a \in AddrValues}
WritePayloads ==
  {[data |-> v, wstrb |-> s, last |-> 1] : v \in DataValues,
                                           s \in {0, FullStrobe}}

(* The condition of NVHLS_ASSERT_MSG(1, "Requests_must_be_R_or_W"). *)
RequestTypeAssert == TRUE

(***************************************************************************)
(* The constructor: the loop over dataList, as a fold over the rows.  q is *)
(* the members built so far; a failed assertion stops the construction.    *)
(***************************************************************************)
EmptyQueues ==
  [ctor |-> "ok", delay_q |-> << >>, isWrite_q |-> << >>, raddr_q |-> << >>,
   waddr_q |-> << >>, wdata_q |-> << >>, rresp_q |-> << >>,
   addr_pld |-> [addr |-> 0, len |-> 0],
   wr_data_pld |-> [data |-> 0, wstrb |-> 0, last |-> 0]]

ConstructRow(q, vec) ==
  IF vec.n # 4
    THEN [q EXCEPT !.ctor = "Each_request_must_have_four_elements"]
  ELSE LET q1 == [q EXCEPT !.delay_q = Append(@, vec.delay)]
       IN IF vec.kind = "R"
            THEN [q1 EXCEPT !.isWrite_q = Append(@, FALSE),
                            !.addr_pld = AddrPayload(vec.addr),
                            !.raddr_q = Append(@, AddrPayload(vec.addr)),
                            !.rresp_q = Append(@, vec.data)]
          ELSE IF vec.kind = "W"
            THEN [q1 EXCEPT !.isWrite_q = Append(@, TRUE),
                            !.addr_pld = AddrPayload(vec.addr),
                            !.waddr_q = Append(@, AddrPayload(vec.addr)),
                            !.wr_data_pld = WritePayload(vec.data),
                            !.wdata_q = Append(@, WritePayload(vec.data))]
          ELSE IF RequestTypeAssert
            THEN q1
            ELSE [q1 EXCEPT !.ctor = "Requests_must_be_R_or_W"]

RECURSIVE Construct(_, _, _)
Construct(q, dataList, i) ==
  IF i > Len(dataList) \/ q.ctor # "ok" THEN q
  ELSE Construct(ConstructRow(q, dataList[i]), dataList, i + 1)

MemIdle ==
  /\ bank = CtorBank
  /\ last = CtorCall
  /\ prev = NoCall
  /\ nops = 0
  /\ cfg = FixedCfg
  /\ probe = NoProbe
  /\ word = WordCtorBank
  /\ hist = << >>

(* The state after construction from any file of up to MaxRows rows. *)
MasterInit ==
  /\ MemIdle
  /\ script \in Scripts
  /\ LET q == Construct(EmptyQueues, script, 1)
     IN /\ ctor = q.ctor
        /\ delay_q = q.delay_q /\ isWrite_q = q.isWrite_q
        /\ raddr_q = q.raddr_q /\ waddr_q = q.waddr_q
        /\ wdata_q = q.wdata_q /\ rresp_q = q.rresp_q
        /\ addr_pld = q.addr_pld /\ wr_data_pld = q.wr_data_pld
        /\ pc = IF q.ctor = "ok" THEN "start" ELSE "aborted"
  /\ data_pld = [data |-> 0]
  /\ done = 0
  /\ wcount = 0
  /\ if_wr_aw = << >> /\ if_wr_w = << >> /\ if_wr_b = << >> /\ if_rd_ar = << >> /\ if_rd_r = << >>
  /\ slave = [aw |-> FALSE, w |-> FALSE, ar |-> FALSE]
  /\ events = << >>
  /\ ub = FALSE

(***************************************************************************)
(* std::queue front() and pop().  On an empty queue both are undefined:    *)
(* front() yields some value of the element type, pop() leaves the queue   *)
(* empty or holding some element (or the program stops, action Crash).     *)
(***************************************************************************)
Front(q, dom) == IF q # << >> THEN {Head(q)} ELSE dom

Pop(q, dom) ==
  IF q # << >> THEN {Tail(q)} ELSE {<< >>} \cup {<<g>> : g \in dom}

Event(ch, pld) == [ch |-> ch, pld |-> pld]

(* if_wr.b.Pop() returns when the slave has put a response on B *)
PopBReady_WrongChannel == if_rd_r # << >>

PopBReady == if_wr_b # << >>

(***************************************************************************)
(* run(), one action per stretch of code between two blocking calls.       *)
(***************************************************************************)
(* done = 0; if_rd.reset(); if_wr.reset(); wait(20); *)
RunStart ==
  /\ pc = "start"
  /\ done' = 0
  /\ pc' = "wait20"
  /\ wcount' = InitialWait
  /\ UNCHANGED <<memVars, script, ctor, queueVars, addr_pld, wr_data_pld,
                 data_pld, if_wr_aw, if_wr_w, if_wr_b, if_rd_ar, if_rd_r, slave, events, ub>>

(* a rising clock edge while run() is in wait(n) *)
Tick ==
  /\ pc \in {"wait20", "delay"}
  /\ wcount > 0
  /\ wcount' = wcount - 1
  /\ UNCHANGED <<memVars, script, ctor, queueVars, addr_pld, wr_data_pld,
                 data_pld, done, pc, if_wr_aw, if_wr_w, if_wr_b, if_rd_ar, if_rd_r, slave, events, ub>>

(* while (!delay_q.empty()) { delay = delay_q.front(); if (delay > 0)      *)
(* wait(delay); ... }  done = 1;                                           *)
LoopHead ==
  /\ (pc = "wait20" /\ wcount = 0) \/ pc = "loop"
  /\ IF delay_q = << >>
       THEN /\ done' = 1
            /\ pc' = "finished"
            /\ wcount' = wcount
       ELSE /\ done' = done
            /\ IF Head(delay_q) > 0
                 THEN pc' = "delay" /\ wcount' = Head(delay_q)
                 ELSE pc' = "issue" /\ wcount' = wcount
  /\ UNCHANGED <<memVars, script, ctor, queueVars, addr_pld, wr_data_pld,
                 data_pld, if_wr_aw, if_wr_w, if_wr_b, if_rd_ar, if_rd_r, slave, events, ub>>

(* delay_q.pop(); if (isWrite_q.front()) addr_pld = waddr_q.front();       *)
(* else addr_pld = raddr_q.front();                                        *)
Issue ==
  /\ pc = "issue" \/ (pc = "delay" /\ wcount = 0)
  /\ delay_q' = Tail(delay_q)
  /\ \E k \in Front(isWrite_q, BOOLEAN) :
       IF k
         THEN /\ addr_pld' \in Front(waddr_q, AddrPayloads)
              /\ pc' = "push_aw"
              /\ ub' = (ub \/ isWrite_q = << >> \/ waddr_q = << >>)
         ELSE /\ addr_pld' \in Front(raddr_q, AddrPayloads)
              /\ pc' = "push_ar"
              /\ ub' = (ub \/ isWrite_q = << >> \/ raddr_q = << >>)
  /\ UNCHANGED <<memVars, script, ctor, isWrite_q, raddr_q, waddr_q, wdata_q,
                 rresp_q, wr_data_pld, data_pld, done, wcount, if_wr_aw, if_wr_w, if_wr_b, if_rd_ar,
                 if_rd_r, slave, events>>

(* if_wr.aw.Push(addr_pld); waddr_q.pop(); wr_data_pld = wdata_q.front(); *)
PushAW ==
  /\ pc = "push_aw"
  /\ if_wr_aw = << >>
  /\ if_wr_aw' = <<addr_pld>>
  /\ events' = Append(events, Event("AW", addr_pld))
  /\ waddr_q' \in Pop(waddr_q, AddrPayloads)
  /\ wr_data_pld' \in Front(wdata_q, WritePayloads)
  /\ ub' = (ub \/ waddr_q = << >> \/ wdata_q = << >>)
  /\ pc' = "push_w"
  /\ UNCHANGED <<memVars, script, ctor, delay_q, isWrite_q, raddr_q, wdata_q,
                 rresp_q, addr_pld, data_pld, done, wcount, if_wr_w, if_wr_b, if_rd_ar, if_rd_r,
                 slave>>

(* if_wr.w.Push(wr_data_pld); wdata_q.pop(); *)
PushW ==
  /\ pc = "push_w"
  /\ if_wr_w = << >>
  /\ if_wr_w' = <<wr_data_pld>>
  /\ events' = Append(events, Event("W", wr_data_pld))
  /\ wdata_q' \in Pop(wdata_q, WritePayloads)
  /\ ub' = (ub \/ wdata_q = << >>)
  /\ pc' = "pop_b"
  /\ UNCHANGED <<memVars, script, ctor, delay_q, isWrite_q, raddr_q, waddr_q,
                 rresp_q, addr_pld, wr_data_pld, data_pld, done, wcount, if_wr_aw,
                 if_wr_b, if_rd_ar, if_rd_r, slave>>

(* if_wr.b.Pop(); isWrite_q.pop(); *)
PopB ==
  /\ pc = "pop_b"
  /\ PopBReady
  /\ if_wr_b' = << >>
  /\ events' = Append(events, Event("B", 0))
  /\ isWrite_q' \in Pop(isWrite_q, BOOLEAN)
  /\ ub' = (ub \/ isWrite_q = << >>)
  /\ pc' = "loop"
  /\ UNCHANGED <<memVars, script, ctor, delay_q, raddr_q, waddr_q, wdata_q,
                 rresp_q, addr_pld, wr_data_pld, data_pld, done, wcount, if_wr_aw,
                 if_wr_w, if_rd_ar, if_rd_r, slave>>

(* if_rd.ar.Push(addr_pld); raddr_q.pop(); *)
PushAR ==
  /\ pc = "push_ar"
  /\ if_rd_ar = << >>
  /\ if_rd_ar' = <<addr_pld>>
  /\ events' = Append(events, Event("AR", addr_pld))
  /\ raddr_q' \in Pop(raddr_q, AddrPayloads)
  /\ ub' = (ub \/ raddr_q = << >>)
  /\ pc' = "pop_r"
  /\ UNCHANGED <<memVars, script, ctor, delay_q, isWrite_q, waddr_q, wdata_q,
                 rresp_q, addr_pld, wr_data_pld, data_pld, done, wcount, if_wr_aw,
                 if_wr_w, if_wr_b, if_rd_r, slave>>

(* data_pld = if_rd.r.Pop();                                               *)
(* NVHLS_ASSERT_MSG(data_pld.data == rresp_q.front(), ...);                *)
(* rresp_q.pop(); isWrite_q.pop();                                         *)
PopR ==
  /\ pc = "pop_r"
  /\ if_rd_r # << >>
  /\ if_rd_r' = << >>
  /\ data_pld' = Head(if_rd_r)
  /\ events' = Append(events, Event("R", Head(if_rd_r)))
  /\ \E expected \in Front(rresp_q, DataValues) :
       IF Head(if_rd_r).data = expected
         THEN /\ rresp_q' \in Pop(rresp_q, DataValues)
              /\ isWrite_q' \in Pop(isWrite_q, BOOLEAN)
              /\ ub' = (ub \/ rresp_q = << >> \/ isWrite_q = << >>)
              /\ pc' = "loop"
         ELSE /\ rresp_q' = rresp_q
              /\ isWrite_q' = isWrite_q
              /\ ub' = (ub \/ rresp_q = << >>)
              /\ pc' = "Read_response_did_not_match_expected_value"
  /\ UNCHANGED <<memVars, script, ctor, delay_q, raddr_q, waddr_q, wdata_q,
                 addr_pld, wr_data_pld, done, wcount, if_wr_aw, if_wr_w, if_wr_b, if_rd_ar, slave>>

(* The next queue operation of run() is on an empty queue. *)
AtUndefined ==
  \/ (pc = "issue" \/ (pc = "delay" /\ wcount = 0)) /\ isWrite_q = << >>
  \/ pc = "push_aw" /\ if_wr_aw = << >> /\ (waddr_q = << >> \/ wdata_q = << >>)
  \/ pc = "push_w" /\ if_wr_w = << >> /\ wdata_q = << >>
  \/ pc = "pop_b" /\ PopBReady /\ isWrite_q = << >>
  \/ pc = "push_ar" /\ if_rd_ar = << >> /\ raddr_q = << >>
  \/ pc = "pop_r" /\ if_rd_r # << >> /\ (rresp_q = << >> \/ isWrite_q = << >>)

(* One outcome of the undefined operation: the program stops. *)
Crash ==
  /\ AtUndefined
  /\ pc' = "crashed"
  /\ ub' = TRUE
  /\ UNCHANGED <<memVars, script, ctor, queueVars, addr_pld, wr_data_pld,
                 data_pld, done, wcount, if_wr_aw, if_wr_w, if_wr_b, if_rd_ar, if_rd_r, slave, events>>

(***************************************************************************)
(* The slave at the far end of the channels: it accepts what is pushed and *)
(* answers a write (address and data received) on B and a read on R, with  *)
(* any data.                                                               *)
(***************************************************************************)
SlaveTakeAW ==
  /\ if_wr_aw # << >>
  /\ if_wr_aw' = << >>
  /\ slave' = [slave EXCEPT !.aw = TRUE]
  /\ UNCHANGED <<memVars, script, ctor, queueVars, addr_pld, wr_data_pld,
                 data_pld, done, pc, wcount, if_wr_w, if_wr_b, if_rd_ar, if_rd_r, events, ub>>

SlaveTakeW ==
  /\ if_wr_w # << >>
  /\ if_wr_w' = << >>
  /\ slave' = [slave EXCEPT !.w = TRUE]
  /\ UNCHANGED <<memVars, script, ctor, queueVars, addr_pld, wr_data_pld,
                 data_pld, done, pc, wcount, if_wr_aw, if_wr_b, if_rd_ar, if_rd_r, events, ub>>

SlaveSendB ==
  /\ slave.aw /\ slave.w
  /\ if_wr_b = << >>
  /\ if_wr_b' = <<[resp |-> 0]>>
  /\ slave' = [slave EXCEPT !.aw = FALSE, !.w = FALSE]
  /\ UNCHANGED <<memVars, script, ctor, queueVars, addr_pld, wr_data_pld,
                 data_pld, done, pc, wcount, if_wr_aw, if_wr_w, if_rd_ar, if_rd_r, events, ub>>

SlaveTakeAR ==
  /\ if_rd_ar # << >>
  /\ if_rd_ar' = << >>
  /\ slave' = [slave EXCEPT !.ar = TRUE]
  /\ UNCHANGED <<memVars, script, ctor, queueVars, addr_pld, wr_data_pld,
                 data_pld, done, pc, wcount, if_wr_aw, if_wr_w, if_wr_b, if_rd_r, events, ub>>

SlaveSendR(data) ==
  /\ slave.ar
  /\ if_rd_r = << >>
  /\ if_rd_r' = <<[data |-> data]>>
  /\ slave' = [slave EXCEPT !.ar = FALSE]
  /\ UNCHANGED <<memVars, script, ctor, queueVars, addr_pld, wr_data_pld,
                 data_pld, done, pc, wcount, if_wr_aw, if_wr_w, if_wr_b, if_rd_ar, events, ub>>

RunStep ==
  \/ RunStart
  \/ LoopHead
  \/ Issue
  \/ PushAW
  \/ PushW
  \/ PopB
  \/ PushAR
  \/ PopR

SlaveStep ==
  \/ SlaveTakeAW
  \/ SlaveTakeW
  \/ SlaveSendB
  \/ SlaveTakeAR
  \/ \E data \in DataValues : SlaveSendR(data)

MasterNext ==
  \/ RunStep
  \/ Tick
  \/ Crash
  \/ SlaveStep

MasterSpec == MasterInit /\ [][MasterNext]_vars

(***************************************************************************)
(* Helpers of the properties.                                              *)
(***************************************************************************)
(* Slice i of the serialized form of v. *)
SliceOf(w, i) == Range(w, (i + 1) * SliceWidth - 1, i * SliceWidth)

(* The stored slice i of entry (b, idx). *)
Stored(bk, b, idx, i) == bk[b][SliceIndex(idx, i, NumByteEnables)]

(* The positions of bank b that entry idx owns. *)
EntrySlices(idx) == {SliceIndex(idx, i, NumByteEnables) : i \in SliceRange}

EnabledWrite(c) == c.op = "write" /\ c.wce
SameEntry(c, d) == c.idx = d.idx /\ c.bank_sel = d.bank_sel

(***************************************************************************)
(* C1  Round trip: a full-mask enabled write(idx, bank_sel, v) immediately *)
(* followed by read(idx, bank_sel) returns a value whose serialized bits   *)
(* are the serialized bits of v.                                           *)
(***************************************************************************)
C1_RoundTrip ==
  (/\ EnabledWrite(prev) /\ prev.mask = FullMask
   /\ last.op = "read" /\ SameEntry(last, prev))
    => TypeToBits(last.rdata) = TypeToBits(prev.val)

C1_Witness ==
  /\ EnabledWrite(prev) /\ prev.mask = FullMask /\ prev.val = 1
  /\ prev.idx = 1 /\ prev.bank_sel = 1
  /\ last.op = "read" /\ SameEntry(last, prev)
  /\ last.rdata = 1

(***************************************************************************)
(* C2  Mask isolation: write(idx, b, v1, S) then write(idx, b, v2,         *)
(* complement(S)) yields a read(idx, b) whose slices in S are v1's and     *)
(* whose slices in complement(S) are v2's.                                 *)
(***************************************************************************)
C2_MaskIsolation ==
  (/\ EnabledWrite(prev) /\ EnabledWrite(last) /\ SameEntry(last, prev)
   /\ last.mask = FullMask - prev.mask)
    => /\ BitsToType(ReadData(bank, last.idx, last.bank_sel)) # {}
       /\ \A r \in BitsToType(ReadData(bank, last.idx, last.bank_sel)) :
            \A i \in SliceRange :
              SliceOf(TypeToBits(r), i) =
                IF MaskBit(prev.mask, i) = 1
                  THEN SliceOf(TypeToBits(prev.val), i)
                  ELSE SliceOf(TypeToBits(last.val), i)

(* v1 = 01 with mask 01, then v2 = 10 with mask 10: low slice from v1,     *)
(* high slice from v2, so 11 is read back.                                 *)
C2_Witness ==
  /\ EnabledWrite(prev) /\ prev.mask = 1 /\ prev.val = 1
  /\ EnabledWrite(last) /\ last.mask = 2 /\ last.val = 2
  /\ SameEntry(last, prev)
  /\ BitsToType(ReadData(bank, last.idx, last.bank_sel)) = {3}

(***************************************************************************)
(* C3  Per-slice masked write: an enabled write(idx, b, v, mask) makes the *)
(* stored slice i of the entry slice i of serialize(v) when bit i of mask  *)
(* is set, and leaves it exactly as it was when the bit is clear.          *)
(***************************************************************************)
C3_PerSliceMaskedWrite ==
  [][(EnabledWrite(last') /\ nops' = nops + 1)
       => \A i \in SliceRange :
            Stored(bank', last'.bank_sel, last'.idx, i) =
              IF MaskBit(last'.mask, i) = 1
                THEN SliceOf(TypeToBits(last'.val), i)
                ELSE Stored(bank, last'.bank_sel, last'.idx, i)]_vars

(* A write of 11 with mask 01 over an entry holding 00: the high slice     *)
(* keeps the 0 of the earlier write, the low slice is the new 1.           *)
C3_Witness ==
  /\ EnabledWrite(prev) /\ prev.mask = FullMask /\ prev.val = 0
  /\ EnabledWrite(last) /\ last.mask = 1 /\ last.val = 3
  /\ SameEntry(last, prev)
  /\ Stored(bank, last.bank_sel, last.idx, 0) = SliceOf(TypeToBits(3), 0)
  /\ Stored(bank, last.bank_sel, last.idx, 1) = SliceOf(TypeToBits(0), 1)

(***************************************************************************)
(* C4  Write-enable gate: a write with wce = false modifies no slice in    *)
(* any bank, so every read returns what it returned before.                *)
(***************************************************************************)
C4_WriteEnableGate ==
  [][(last'.op = "write" /\ ~last'.wce /\ nops' = nops + 1)
       => /\ bank' = bank
          /\ \A b \in ValidBank, idx \in ValidIdx :
               ReadData(bank', idx, b) = ReadData(bank, idx, b)]_vars

C4_Witness ==
  /\ EnabledWrite(prev) /\ prev.mask = FullMask /\ prev.val = 1
  /\ last.op = "write" /\ ~last.wce /\ last.mask = FullMask /\ last.val = 2
  /\ SameEntry(last, prev)
  /\ ReadData(bank, last.idx, last.bank_sel) = TypeToBits(1)

(***************************************************************************)
(* C5  Bank isolation: a write to (b1, idx) leaves every slice of every    *)
(* other bank unchanged.                                                   *)
(***************************************************************************)
C5_BankIsolation ==
  [][(last'.op = "write" /\ nops' = nops + 1)
       => \A b2 \in ValidBank \ {last'.bank_sel} :
            /\ bank'[b2] = bank[b2]
            /\ \A idx \in ValidIdx :
                 ReadData(bank', idx, b2) = ReadData(bank, idx, b2)]_vars

C5_Witness ==
  /\ EnabledWrite(prev) /\ prev.mask = FullMask /\ prev.val = 1
  /\ prev.bank_sel = 0
  /\ EnabledWrite(last) /\ last.mask = FullMask /\ last.val = 2
  /\ last.bank_sel = 1 /\ last.idx = prev.idx
  /\ ReadData(bank, prev.idx, 0) = TypeToBits(1)
  /\ ReadData(bank, last.idx, 1) = TypeToBits(2)

(***************************************************************************)
(* C6  Clear: after clear() every slice of every bank is all zero bits and *)
(* a read at every valid (bank, index) returns the all-zero value.         *)
(***************************************************************************)
C6_ClearZero ==
  /\ last.op = "clear"
       => /\ \A b \in ValidBank, j \in BankPositions : bank[b][j] = SliceZero
          /\ \A b \in ValidBank, idx \in ValidIdx :
               BitsToType(ReadData(bank, idx, b)) = {0}
  /\ (prev.op = "clear" /\ last.op = "read") => last.rdata = 0

C6_Witness ==
  /\ EnabledWrite(prev) /\ prev.mask = FullMask /\ prev.val = 3
  /\ last.op = "clear"
  /\ BitsToType(ReadData(bank, prev.idx, prev.bank_sel)) = {0}

C8_ZeroMaskNoop ==
  [][(last'.op = "write" /\ last'.mask = 0 /\ nops' = nops + 1)
       => bank' = bank]_vars

C8_Witness ==
  /\ EnabledWrite(prev) /\ prev.mask = FullMask /\ prev.val = 1
  /\ EnabledWrite(last) /\ last.mask = 0 /\ last.val = 2
  /\ SameEntry(last, prev)
  /\ ReadData(bank, last.idx, last.bank_sel) = TypeToBits(1)

(***************************************************************************)
(* C9  No slice is shared between entries: entry idx of a bank owns        *)
(* exactly the positions idx*NumByteEnables .. idx*NumByteEnables +        *)
(* NumByteEnables - 1, distinct entries own disjoint positions, and a      *)
(* write to one entry changes no slice and no read result of any other     *)
(* entry, in the same bank or another.                                     *)
(***************************************************************************)
C9_EntriesDisjoint ==
  [][(last'.op = "write" /\ nops' = nops + 1)
       => /\ \A idx \in ValidIdx :
               EntrySlices(idx) =
                 idx * NumByteEnables ..
                   idx * NumByteEnables + NumByteEnables - 1
          /\ \A idx1, idx2 \in ValidIdx :
               idx1 # idx2 => EntrySlices(idx1) \cap EntrySlices(idx2) = {}
          /\ \A b \in ValidBank, idx \in ValidIdx :
               (b # last'.bank_sel \/ idx # last'.idx)
                 => /\ \A i \in SliceRange :
                         Stored(bank', b, idx, i) = Stored(bank, b, idx, i)
                    /\ ReadData(bank', idx, b) = ReadData(bank, idx, b)]_vars

(* Two entries of the same bank written one after the other with different *)
(* values: the first keeps its value.                                      *)
C9_Witness ==
  /\ EnabledWrite(prev) /\ prev.mask = FullMask /\ prev.val = 1
  /\ prev.idx = 1
  /\ EnabledWrite(last) /\ last.mask = FullMask /\ last.val = 2
  /\ last.idx = 0 /\ last.bank_sel = prev.bank_sel
  /\ ReadData(bank, 1, prev.bank_sel) = TypeToBits(1)
  /\ ReadData(bank, 0, prev.bank_sel) = TypeToBits(2)

(***************************************************************************)
(* C10  (as stated) For every configuration, every value of the LocalIndex *)
(* type is below NumEntriesPerBank and every value of the BankIndex type   *)
(* is below NumBanks, so every addressed slice position lies inside the    *)
(* bank.                                                                   *)
(***************************************************************************)
InRange ==
  /\ probe.idx < cfg.epb
  /\ probe.bank_sel < cfg.banks
  /\ probe.pos < cfg.epb * cfg.nbe

C10_IndexTypesInRange == probe.made => InRange

(***************************************************************************)
(* C10  (amended) When NumEntriesPerBank and NumBanks are powers of two,   *)
(* at least 2, every value of the LocalIndex type is below                 *)
(* NumEntriesPerBank, every value of the BankIndex type is below NumBanks  *)
(* and every addressed slice position lies inside the bank; for other      *)
(* counts the index types admit out-of-range values.                       *)
(***************************************************************************)
C10_Pow2IndexTypesInRange ==
  (/\ probe.made
   /\ cfg.epb >= 2 /\ IsPow2(cfg.epb)
   /\ cfg.banks >= 2 /\ IsPow2(cfg.banks))
    => InRange

C10_Witness ==
  /\ probe.made
  /\ cfg.epb = 4 /\ cfg.banks = 2 /\ cfg.nbe = 2
  /\ probe.idx = 3 /\ probe.bank_sel = 1 /\ probe.i = 1
  /\ probe.pos = 7

(***************************************************************************)
(* C11  Independence of NumByteEnables: over any sequence of clear, read   *)
(* and full-mask enabled writes, a read of the sliced memory assembles the *)
(* same word as a read of the NumByteEnables = 1 memory at the same        *)
(* (bank, index); and in the NumByteEnables = 1 memory a write with mask   *)
(* bit 1 replaces the whole stored word, mask bit 0 leaves it unchanged.   *)
(***************************************************************************)
C11_ByteEnableIndependence ==
  /\ [](\A b \in ValidBank, idx \in ValidIdx :
          ReadData(bank, idx, b) = WordReadData(word, idx, b))
  /\ [][last'.op = "write"
          => \A b \in ValidBank, idx \in ValidIdx :
               word'[b][idx] =
                 IF b = last'.bank_sel /\ idx = last'.idx
                    /\ last'.mask = FullMask
                   THEN TypeToBits(last'.val)
                   ELSE word[b][idx]]_vars

C11_Witness ==
  /\ last.op = "write" /\ last.mask = FullMask /\ last.val = 1
  /\ last.idx = 1 /\ last.bank_sel = 1
  /\ ReadData(bank, 1, 1) = TypeToBits(1)
  /\ WordReadData(word, 1, 1) = TypeToBits(1)
  /\ WordReadData(word, 0, 1) = TypeToBits(2)
  /\ ReadData(bank, 0, 0) = DataZero

(***************************************************************************)
(* C15  Slice order is little-endian and the same in read and write: the   *)
(* slice stored at position idx*NumByteEnables + i of bank b holds bits    *)
(* i*SliceWidth .. (i+1)*SliceWidth - 1 of the serialized word, and read   *)
(* puts each stored slice back into that bit range.                        *)
(***************************************************************************)
C15_SliceOrder ==
  /\ \A b \in ValidBank, idx \in ValidIdx, i \in SliceRange,
        k \in 0 .. SliceWidth - 1 :
       ReadData(bank, idx, b)[i * SliceWidth + k] =
         bank[b][idx * NumByteEnables + i][k]
  /\ (EnabledWrite(last) /\ last.mask = FullMask)
       => \A i \in SliceRange, k \in 0 .. SliceWidth - 1 :
            bank[last.bank_sel][last.idx * NumByteEnables + i][k] =
              TypeToBits(last.val)[i * SliceWidth + k]

(* 01 written: position idx*2 holds the least-significant bit 1, position  *)
(* idx*2 + 1 the most-significant bit 0.                                   *)
C15_Witness ==
  /\ EnabledWrite(last) /\ last.mask = FullMask /\ last.val = 1
  /\ last.idx = 1 /\ last.bank_sel = 0
  /\ bank[0][2][0] = "1"
  /\ bank[0][3][0] = "0"
  /\ ReadData(bank, 1, 0)[0] = "1"
  /\ ReadData(bank, 1, 0)[1] = "0"

(***************************************************************************)
(* C20  Last writer wins per slice: each stored slice (b, idx, i) is slice *)
(* i of the value of the most recent write to (b, idx) with wce set and    *)
(* mask bit i set made after the most recent clear; without such a write   *)
(* it is zero if a clear has been made and the construction-time slice     *)
(* otherwise.                                                              *)
(***************************************************************************)
RECURSIVE LastWriter(_, _, _, _, _)
LastWriter(h, n, b, idx, i) ==
  IF n = 0 THEN SliceDefault
  ELSE IF h[n].op = "clear" THEN SliceZero
  ELSE IF /\ h[n].op = "write" /\ h[n].wce
          /\ h[n].bank_sel = b /\ h[n].idx = idx
          /\ MaskBit(h[n].mask, i) = 1
         THEN SliceOf(TypeToBits(h[n].val), i)
         ELSE LastWriter(h, n - 1, b, idx, i)

C20_LastWriterWins ==
  \A b \in ValidBank, idx \in ValidIdx, i \in SliceRange :
    Stored(bank, b, idx, i) = LastWriter(hist, Len(hist), b, idx, i)

(* A full write of 11 and then a write of 00 with mask 10 to the same      *)
(* entry: slice 0 is still the first write's, slice 1 the second write's.  *)
C20_Witness ==
  /\ Len(hist) = 2
  /\ EnabledWrite(hist[1]) /\ hist[1].mask = FullMask /\ hist[1].val = 3
  /\ EnabledWrite(hist[2]) /\ hist[2].mask = 2 /\ hist[2].val = 0
  /\ SameEntry(hist[1], hist[2])
  /\ Stored(bank, hist[1].bank_sel, hist[1].idx, 0) = SliceOf(TypeToBits(3), 0)
  /\ Stored(bank, hist[1].bank_sel, hist[1].idx, 1) = SliceOf(TypeToBits(0), 1)

(***************************************************************************)
(* Helpers of the master's properties.                                     *)
(***************************************************************************)
AssertFailedRead == "Read_response_did_not_match_expected_value"

IsRequestRow(vec) == vec.kind \in {"R", "W"}

FourFields(dataList) == \A i \in 1 .. Len(dataList) : dataList[i].n = 4

ScriptIsRW(dataList) ==
  \A i \in 1 .. Len(dataList) : dataList[i].n = 4 /\ IsRequestRow(dataList[i])

HasOtherType(dataList) ==
  \E i \in 1 .. Len(dataList) : ~IsRequestRow(dataList[i])

RECURSIVE Count(_, _, _)
Count(q, P(_), n) ==
  IF n = 0 THEN 0
  ELSE Count(q, P, n - 1) + (IF P(q[n]) THEN 1 ELSE 0)

CountRows(dataList, kinds) ==
  LET P(vec) == vec.kind \in kinds IN Count(dataList, P, Len(dataList))

CountEvents(log, chs) ==
  LET P(e) == e.ch \in chs IN Count(log, P, Len(log))

AllQueuesEmpty ==
  /\ delay_q = << >> /\ isWrite_q = << >> /\ raddr_q = << >>
  /\ waddr_q = << >> /\ wdata_q = << >> /\ rresp_q = << >>

(* C16: a row whose request type is neither "R" nor "W" makes the          *)
(* construction fail with Requests_must_be_R_or_W, and the queues of a     *)
(* constructed master hold entries of R and W rows only: delay_q has as    *)
(* many entries as the file has R and W rows.                              *)
C16_OtherTypeRejected ==
  (FourFields(script) /\ HasOtherType(script))
    => /\ ctor = "Requests_must_be_R_or_W"
       /\ pc = "start" => Len(delay_q) = CountRows(script, {"R", "W"})

(* C19: for a file whose rows all have four fields, after construction and *)
(* at the top of every iteration of run's loop the queue lengths agree     *)
(* (|delay_q| = |isWrite_q| = |raddr_q| + |waddr_q|, |waddr_q| = |wdata_q|,*)
(* |raddr_q| = |rresp_q|), and run never executes front() or pop() on an   *)
(* empty queue.                                                            *)
C19_QueueConsistency ==
  FourFields(script)
    => /\ pc \in {"start", "wait20", "loop"}
            => /\ Len(delay_q) = Len(isWrite_q)
               /\ Len(isWrite_q) = Len(raddr_q) + Len(waddr_q)
               /\ Len(waddr_q) = Len(wdata_q)
               /\ Len(raddr_q) = Len(rresp_q)
       /\ ~ub
       /\ ~AtUndefined

(* The channel traffic of one row, in the order run produces it; the data  *)
(* of a read response is the slave's.                                      *)
RowEvents(vec, rdata) ==
  IF vec.kind = "W"
    THEN <<Event("AW", AddrPayload(vec.addr)),
           Event("W", [data |-> vec.data, wstrb |-> FullStrobe, last |-> 1]),
           Event("B", 0)>>
  ELSE IF vec.kind = "R"
    THEN <<Event("AR", AddrPayload(vec.addr)), Event("R", [data |-> rdata])>>
    ELSE << >>

(* log[from ..] is the traffic of rows dataList[i ..], or a beginning of it *)
RECURSIVE Replays(_, _, _, _)
Replays(log, from, dataList, i) ==
  IF from > Len(log) THEN TRUE
  ELSE IF i > Len(dataList) THEN FALSE
  ELSE \E rdata \in DataValues :
         LET want == RowEvents(dataList[i], rdata)
             n == IF Len(log) - from + 1 < Len(want)
                    THEN Len(log) - from + 1 ELSE Len(want)
         IN /\ \A j \in 1 .. n : log[from + j - 1] = want[j]
            /\ Replays(log, from + Len(want), dataList, i + 1)

(* C12: the master's channel traffic is the rows of the file in file order,*)
(* one row at a time (AW, W, B of a write row, AR, R of a read row, the    *)
(* next address only after the previous response), and when run is done    *)
(* every row has been issued exactly once.                                 *)
C12_FileOrder ==
  FourFields(script)
    => /\ Replays(events, 1, script, 1)
       /\ done = 1 => CountEvents(events, {"AW", "AR"}) = Len(script)

(* C17: done is 1 only when every row has been issued and answered, all    *)
(* six queues being empty, and nothing is being pushed while done is 1.    *)
C17_DoneAfterAll ==
  done = 1
    => /\ AllQueuesEmpty
       /\ CountEvents(events, {"B", "R"}) = Len(script)
       /\ pc = "finished"

RECURSIVE SelectRows(_, _)
SelectRows(dataList, kind) ==
  IF dataList = << >> THEN << >>
  ELSE IF Head(dataList).kind = kind
    THEN <<Head(dataList)>> \o SelectRows(Tail(dataList), kind)
    ELSE SelectRows(Tail(dataList), kind)

(* C13: when the master has popped its k-th read response, it is at the    *)
(* Read_response_did_not_match_expected_value assertion exactly if the     *)
(* response differs from the expected data of the k-th R row of the file.  *)
C13_ReadChecked ==
  (/\ FourFields(script)
   /\ events # << >>
   /\ events[Len(events)].ch = "R"
   /\ pc \in {"loop", AssertFailedRead})
    => LET k == CountEvents(events, {"R"})
           reads == SelectRows(script, "R")
       IN /\ k <= Len(reads)
          /\ pc = AssertFailedRead
               <=> events[Len(events)].pld.data # reads[k].data

(* C14: every write payload the master pushes on W has all bytesPerBeat    *)
(* strobe bits set.                                                        *)
C14_FullMask ==
  \A i \in 1 .. Len(events) :
    events[i].ch = "W" => events[i].pld.wstrb = FullStrobe

(***************************************************************************)
(* A master constructed from a file of R and W rows.  Its queue lengths    *)
(* agree, so no queue operation of run() is undefined and the steps are    *)
(* those of run(), the clock and the slave.  The clock keeps ticking, the  *)
(* slave accepts and answers, and run() takes its next step when it can.   *)
(***************************************************************************)
ScriptInit == MasterInit /\ ScriptIsRW(script)

ScriptNext ==
  \/ RunStep
  \/ Tick
  \/ SlaveStep

ScriptLiveSpec ==
  /\ ScriptInit
  /\ [][ScriptNext]_vars
  /\ WF_vars(RunStep)
  /\ WF_vars(Tick)
  /\ WF_vars(SlaveStep)

(* C18: for a file of R and W rows, with the clock ticking and the slave   *)
(* accepting and answering, run eventually sets done to 1 unless a read    *)
(* response differs from the expected value.                               *)
C18_Termination == <>(done = 1 \/ pc = AssertFailedRead)

(* C18 witness: run done after a file with a delayed write and a read. *)
C18_Witness ==
  /\ done = 1
  /\ ScriptIsRW(script)
  /\ Len(script) >= 2
  /\ \E i \in 1 .. Len(script) : script[i].kind = "W" /\ script[i].delay > 0
  /\ \E i \in 1 .. Len(script) : script[i].kind = "R"
  /\ CountEvents(events, {"B", "R"}) = Len(script)

TypeOK ==
  /\ bank \in [ValidBank -> [BankPositions -> Slice_t]]
  /\ nops \in 0 .. MaxOps
====
